---- MODULE Spec2Model ----
(***************************************************************************)
(* Field-force tracker: the check-in lifecycle (POST /api/checkin,         *)
(* PUT /api/checkin/checkout) and the manager's daily summary report       *)
(* (GET /api/reports/daily-summary).                                       *)
(*                                                                         *)
(* Time is counted in hundredths of an hour, so that one tenth of an hour  *)
(* (the report's rounding step) is 10 units and one half of it is 5.       *)
(* Hours in a response are kept in tenths of an hour.                      *)
(*                                                                         *)
(* seen is a history variable: the ledger states that existed since the    *)
(* start of the report request in progress.                                *)
(*                                                                         *)
(* The Counter component of the frontend is the second part of the model:  *)
(* its state, its ref, and the work React has scheduled for it.            *)
(***************************************************************************)
EXTENDS Integers, Sequences, FiniteSets, TLC

VARIABLES checkins, clock, calls, nreq, log, rep, seen

VARIABLES initialValue, count, isRunning, countRef, updates, effects,
          captured, ticks, clicks, logged

backendVars == <<checkins, clock, calls, nreq, log, rep, seen>>

counterVars == <<initialValue, count, isRunning, countRef, updates, effects,
                 captured, ticks, clicks, logged>>

vars == <<backendVars, counterVars>>

(***************************************************************************)
(* Bounds of the model.                                                    *)
(***************************************************************************)
NumWorkers == 2
MaxRequests == 3
MaxClock == 1
MaxRows == 2
MaxDur == 5
MaxTicks == 3
MaxClicks == 2
MaxPending == 2

(***************************************************************************)
(* Tables that the handlers only read.                                     *)
(***************************************************************************)
NULL == -1

(***************************************************************************)
(* The Counter component.  count and isRunning are the state of the last   *)
(* committed render; updates holds the updaters the interval has queued    *)
(* and React has not rendered yet; effects says that the passive effect    *)
(* of a committed render, countRef.current = count, has not run yet.       *)
(* A click is a discrete event: React renders it synchronously and runs    *)
(* the passive effects before it returns.  The render of a tick is         *)
(* scheduled, and its passive effects run in a later task.                 *)
(***************************************************************************)
InitialValues == {0, 5}

NoLog == [ref |-> NULL, count |-> NULL]

\* useState(initialValue), useState(false), useRef(count).
Mounted(v) ==
  /\ initialValue = v
  /\ count = v
  /\ isRunning = FALSE
  /\ countRef = v
  /\ updates = << >>
  /\ effects = FALSE
  /\ captured = NULL
  /\ ticks = 0
  /\ clicks = 0
  /\ logged = NoLog

\* The updater of the interval written with the count of the render that
\* created the interval: count + 1.
TickUpdateStale(c, cap) == cap + 1

\* The updater of the interval, c => c + 1; cap is the count of the render
\* that created the interval, which the updater does not read.
TickUpdate(c, cap) == c + 1

\* The updater of the +1 button, c => c + 1.
ClickUpdate(c) == c + 1

\* The queued updaters applied in order to the state c.
RECURSIVE ApplyUpdates(_, _)
ApplyUpdates(c, q) ==
  IF q = << >> THEN c ELSE ApplyUpdates(TickUpdate(c, Head(q)), Tail(q))

\* The interval fires: setCount(c => c + 1) queues an updater.
Tick ==
  /\ isRunning
  /\ ticks < MaxTicks
  /\ Len(updates) < MaxPending
  /\ updates' = Append(updates, captured)
  /\ ticks' = ticks + 1
  /\ UNCHANGED <<initialValue, count, isRunning, countRef, effects, captured,
                 clicks, logged>>
  /\ UNCHANGED backendVars

\* React renders the queued updaters and commits; the effect of [count] is
\* left to a later task.
Render ==
  /\ updates # << >>
  /\ count' = ApplyUpdates(count, updates)
  /\ updates' = << >>
  /\ effects' = (effects \/ count' # count)
  /\ UNCHANGED <<initialValue, isRunning, countRef, captured, ticks, clicks,
                 logged>>
  /\ UNCHANGED backendVars

\* The passive effect runs: countRef.current = count.
FlushEffects ==
  /\ effects
  /\ countRef' = count
  /\ effects' = FALSE
  /\ UNCHANGED <<initialValue, count, isRunning, updates, captured, ticks,
                 clicks, logged>>
  /\ UNCHANGED backendVars

\* A click on +1: pending effects run, the updater is rendered and
\* committed, and the effect of [count] runs before the click returns.
ClickIncrement ==
  /\ clicks < MaxClicks
  /\ clicks' = clicks + 1
  /\ count' = ClickUpdate(count)
  /\ countRef' = count'
  /\ effects' = FALSE
  /\ UNCHANGED <<initialValue, isRunning, updates, captured, ticks, logged>>
  /\ UNCHANGED backendVars

\* A click on Auto or Stop: setIsRunning(!isRunning); the effect of
\* [isRunning] clears the interval and, when running, creates a new one.
ClickAuto ==
  /\ isRunning' = ~isRunning
  /\ captured' = IF isRunning' THEN count ELSE NULL
  /\ countRef' = count
  /\ effects' = FALSE
  /\ UNCHANGED <<initialValue, count, updates, ticks, clicks, logged>>
  /\ UNCHANGED backendVars

\* A click on Log: logCount reads countRef.current; nothing is rendered.
ClickLog ==
  /\ logged' = [ref |-> countRef, count |-> count]
  /\ UNCHANGED <<initialValue, count, isRunning, countRef, updates, effects,
                 captured, ticks, clicks>>
  /\ UNCHANGED backendVars

\* users: the manager and two employees of the test credentials, two more
\* members of the same team, and a second manager with one employee.
users ==
  << [id |-> 1, name |-> "Manager", email |-> "manager@unolo.com",
      role |-> "manager", manager_id |-> NULL],
     [id |-> 2, name |-> "Rahul", email |-> "rahul@unolo.com",
      role |-> "employee", manager_id |-> 1],
     [id |-> 3, name |-> "Priya", email |-> "priya@unolo.com",
      role |-> "employee", manager_id |-> 1],
     [id |-> 4, name |-> "Vikram", email |-> "vikram@unolo.com",
      role |-> "employee", manager_id |-> 1],
     [id |-> 5, name |-> "Anita", email |-> "anita@unolo.com",
      role |-> "employee", manager_id |-> 1],
     [id |-> 6, name |-> "Sunita", email |-> "sunita@unolo.com",
      role |-> "manager", manager_id |-> NULL],
     [id |-> 7, name |-> "Karan", email |-> "karan@unolo.com",
      role |-> "employee", manager_id |-> 6] >>

UserIds == 1..Len(users)

\* The order of the names under ORDER BY u.name.
Collation == << "Anita", "Karan", "Manager", "Priya", "Rahul", "Sunita", "Vikram" >>

ClientIds == {1, 2}

\* employee_clients: which employee is assigned to which client.
employee_clients == { <<2, 1>>, <<3, 1>>, <<3, 2>> }


(***************************************************************************)
(* The ledger: the checkins table, a sequence of rows in the order of      *)
(* their insertion; a row's id is its place in the sequence.               *)
(***************************************************************************)
Min(a, b) == IF a <= b THEN a ELSE b

\* SELECT * FROM checkins WHERE employee_id = ? AND status = "checked_in"
SelectActive(rows, e) ==
  SelectSeq(rows, LAMBDA r : r.employee_id = e /\ r.status = "checked_in")

\* A variant of the insert that keeps one row per employee and writes the new
\* check-in over it.
InsertCheckinUpsert(rows, e, c, now) ==
  IF \E i \in 1..Len(rows) : rows[i].employee_id = e
  THEN LET k == CHOOSE i \in 1..Len(rows) : rows[i].employee_id = e
       IN  [rows EXCEPT ![k] = [id |-> k, employee_id |-> e, client_id |-> c,
                                checkin_time |-> now, checkout_time |-> NULL,
                                status |-> "checked_in"]]
  ELSE Append(rows, [id |-> Len(rows) + 1, employee_id |-> e, client_id |-> c,
                     checkin_time |-> now, checkout_time |-> NULL,
                     status |-> "checked_in"])

\* INSERT INTO checkins (employee_id, client_id, ..., status): a fresh id, the
\* time of the insertion, no checkout yet.
InsertCheckin(rows, e, c, now) ==
  Append(rows, [id |-> Len(rows) + 1, employee_id |-> e, client_id |-> c,
                checkin_time |-> now, checkout_time |-> NULL,
                status |-> "checked_in"])

\* A variant of the checkout that records the time and forgets the status.
CloseCheckinKeepStatus(rows, e, now) ==
  [i \in 1..Len(rows) |->
     IF rows[i].employee_id = e /\ rows[i].status = "checked_in"
     THEN [rows[i] EXCEPT !.checkout_time = now]
     ELSE rows[i]]

\* The conditional update of the checkout: every row of the employee that is
\* still checked_in gets the checkout time and the status checked_out.
CloseCheckin(rows, e, now) ==
  [i \in 1..Len(rows) |->
     IF rows[i].employee_id = e /\ rows[i].status = "checked_in"
     THEN [rows[i] EXCEPT !.checkout_time = now, !.status = "checked_out"]
     ELSE rows[i]]

\* The assignment check of the check-in: a row of employee_clients.
IsAssigned(e, c) == <<e, c>> \in employee_clients

(***************************************************************************)
(* Positions and distances.  Coordinates are in ten-thousandths of a       *)
(* degree, distances in metres; a distance is shown in hundredths of a     *)
(* kilometre.                                                              *)
(***************************************************************************)
\* The registered location of the clients: both at (12.9716, 77.5946).
ClientLocation == [lat |-> 129716, lng |-> 775946]

\* The positions a check-in reports: next to the client (12.9720, 77.5950),
\* about half a kilometre north of it (the two stand for a distance of exactly
\* 500 m and of 501 m), in another city (13.0827, 80.2707), and one with
\* latitude 91.
Positions ==
  { [name |-> "near", lat |-> 129720, lng |-> 775950],
    [name |-> "edge", lat |-> 129761, lng |-> 775946],
    [name |-> "over", lat |-> 129761, lng |-> 775947],
    [name |-> "far", lat |-> 130827, lng |-> 802707],
    [name |-> "invalid", lat |-> 910000, lng |-> 775946] }

\* Latitude within [-90, 90] and longitude within [-180, 180].
ValidCoordinate(p) ==
  /\ p.lat >= 0 - 900000 /\ p.lat <= 900000
  /\ p.lng >= 0 - 1800000 /\ p.lng <= 1800000

\* The great-circle distance (Haversine, Earth radius 6371 km) from the
\* client's location to each position of the model, in metres.
GeoDistance(p) ==
  CASE p.name = "near" -> 62
    [] p.name = "edge" -> 500
    [] p.name = "over" -> 501
    [] p.name = "far" -> 290170

\* The warning threshold of 0.5 km, in metres.
WarningThreshold == 500

\* A warning at the threshold already.
WarningAtThreshold(m) == m >= WarningThreshold

\* The warning of a check-in: the distance exceeds 0.5 km.
Warning(m) == m > WarningThreshold

(***************************************************************************)
(* The request handlers of the check-in routes.  A handler runs up to its  *)
(* next await in one step; workers run them concurrently.                  *)
(***************************************************************************)
Workers == 1..NumWorkers

\* The employees that send check-in and checkout requests.
FieldEmployees == {2, 3}

NoPosition == [name |-> "none", lat |-> 0, lng |-> 0]

IdleCall == [pc |-> "idle", op |-> "none", emp |-> NULL, client |-> NULL,
             position |-> NoPosition, distance |-> NULL, warning |-> FALSE,
             result |-> "none", checkin_id |-> NULL]

\* The position of the requests of Spec: next to the client.
NearPosition == CHOOSE p \in Positions : p.name = "near"

\* The times the store's clock can show at the next write.
Now == clock..Min(clock + 1, MaxClock)

Respond(w, result, id) ==
  /\ calls' = [calls EXCEPT ![w].pc = "done", ![w].result = result,
                            ![w].checkin_id = id,
                            ![w].warning = (result = "success"
                                            /\ calls[w].op = "check_in"
                                            /\ Warning(calls[w].distance))]
  /\ log' = Append(log, [op |-> calls[w].op, emp |-> calls[w].emp,
                         result |-> result])

\* POST /api/checkin arrives; a request without client_id is answered 400.
CheckinRequest(w, e, c, p) ==
  /\ calls[w].pc \in {"idle", "done"}
  /\ nreq < MaxRequests
  /\ nreq' = nreq + 1
  /\ IF c = NULL
     THEN /\ calls' = [calls EXCEPT ![w] = [IdleCall EXCEPT !.pc = "done",
                          !.op = "check_in", !.emp = e,
                          !.position = p, !.result = "ClientRequired"]]
          /\ log' = Append(log, [op |-> "check_in", emp |-> e,
                                 result |-> "ClientRequired"])
     ELSE /\ calls' = [calls EXCEPT ![w] = [IdleCall EXCEPT !.pc = "authorize",
                          !.op = "check_in", !.emp = e, !.client = c,
                          !.position = p]]
          /\ log' = log
  /\ UNCHANGED <<checkins, clock, rep, seen>>
  /\ UNCHANGED counterVars

\* A variant of the assignment check that lets every employee through.
AuthorizedAnyone(e, c) == TRUE

\* The authorization of a check-in at a client.
Authorized(e, c) == IsAssigned(e, c)

\* The employee must be assigned to the client; then the distance to the
\* client is computed, and a position out of range is InvalidCoordinate.
CheckinAuthorize(w) ==
  /\ calls[w].pc = "authorize"
  /\ IF ~Authorized(calls[w].emp, calls[w].client)
     THEN Respond(w, "NotAuthorizedForClient", NULL)
     ELSE IF ~ValidCoordinate(calls[w].position)
     THEN Respond(w, "InvalidCoordinate", NULL)
     ELSE /\ calls' = [calls EXCEPT ![w].pc = "active_check",
                 ![w].distance = GeoDistance(calls[w].position)]
          /\ log' = log
  /\ UNCHANGED <<checkins, clock, nreq, rep, seen>>
  /\ UNCHANGED counterVars

\* Check for existing active check-in.
CheckinActiveCheck(w) ==
  /\ calls[w].pc = "active_check"
  /\ IF Len(SelectActive(checkins, calls[w].emp)) > 0
     THEN Respond(w, "AlreadyCheckedIn", NULL)
     ELSE /\ calls' = [calls EXCEPT ![w].pc = "insert"]
          /\ log' = log
  /\ UNCHANGED <<checkins, clock, nreq, rep, seen>>
  /\ UNCHANGED counterVars

\* The history of the ledger during a report request: a committed write is
\* recorded while the request is between its start and its response.
Observed(history, rows) ==
  IF rep.pc \in {"employee_query", "unique_query"}
  THEN Append(history, rows) ELSE history

\* The INSERT, and the response with the new row.
CheckinInsert(w) ==
  /\ calls[w].pc = "insert"
  /\ \E now \in Now :
       /\ checkins' = InsertCheckin(checkins, calls[w].emp, calls[w].client, now)
       /\ clock' = now
  /\ Respond(w, "success", Len(checkins) + 1)
  /\ seen' = Observed(seen, checkins')
  /\ UNCHANGED <<nreq, rep>>
  /\ UNCHANGED counterVars

\* PUT /api/checkin/checkout arrives.
CheckoutRequest(w, e) ==
  /\ calls[w].pc \in {"idle", "done"}
  /\ nreq < MaxRequests
  /\ nreq' = nreq + 1
  /\ calls' = [calls EXCEPT ![w] = [IdleCall EXCEPT !.pc = "close",
                                    !.op = "check_out", !.emp = e]]
  /\ UNCHANGED <<checkins, clock, log, rep, seen>>
  /\ UNCHANGED counterVars

\* The checkout closes the employee's active check-in in one conditional
\* update; zero rows affected is NoActiveCheckin.
CheckoutClose(w) ==
  /\ calls[w].pc = "close"
  /\ IF Len(SelectActive(checkins, calls[w].emp)) > 0
     THEN /\ \E now \in Now :
               /\ checkins' = CloseCheckin(checkins, calls[w].emp, now)
               /\ clock' = now
          /\ Respond(w, "success", SelectActive(checkins, calls[w].emp)[1].id)
          /\ seen' = Observed(seen, checkins')
     ELSE /\ Respond(w, "NoActiveCheckin", NULL)
          /\ UNCHANGED <<checkins, clock, seen>>
  /\ UNCHANGED <<nreq, rep>>
  /\ UNCHANGED counterVars

(***************************************************************************)
(* Dates.  A date of a request is a string, kept as the sequence of its    *)
(* characters; a timestamp of the ledger is a number of time units since   *)
(* the midnight that starts 2024-01-15.                                    *)
(***************************************************************************)
Digits == << "0", "1", "2", "3", "4", "5", "6", "7", "8", "9" >>

IsDigit(ch) == \E i \in 1..Len(Digits) : Digits[i] = ch

DigitValue(ch) == (CHOOSE i \in 1..Len(Digits) : Digits[i] = ch) - 1

DigitChar(n) == Digits[n + 1]

Pad2(n) == << DigitChar((n \div 10) % 10), DigitChar(n % 10) >>

Pad4(n) == << DigitChar((n \div 1000) % 10), DigitChar((n \div 100) % 10) >>
           \o Pad2(n % 100)

\* One day in time units: 24 hours of 100 units.
DayLength == 2400

\* The calendar day in a zone five and a half hours ahead.
CalendarDayLocal(t) == << 2024, 1, 15 + ((t + 550) \div DayLength) >>

\* The calendar day of a timestamp, as <<year, month, day>>; the model's
\* timestamps stay within January 2024.
CalendarDay(t) == << 2024, 1, 15 + (t \div DayLength) >>

\* DATE(ch.checkin_time): the text YYYY-MM-DD of the timestamp's day.
DATE(t) ==
  LET ymd == CalendarDay(t)
  IN  Pad4(ymd[1]) \o << "-" >> \o Pad2(ymd[2]) \o << "-" >> \o Pad2(ymd[3])

\* The same pattern without its end anchor.
DateRegexTestOpenEnd(d) ==
  /\ Len(d) >= 10
  /\ \A i \in {1, 2, 3, 4, 6, 7, 9, 10} : IsDigit(d[i])
  /\ d[5] = "-"
  /\ d[8] = "-"

\* /^\d{4}-\d{2}-\d{2}$/.test(date)
DateRegexTest(d) ==
  /\ Len(d) = 10
  /\ \A i \in {1, 2, 3, 4, 6, 7, 9, 10} : IsDigit(d[i])
  /\ d[5] = "-"
  /\ d[8] = "-"

\* A request without a date, or with the empty string: !date holds.
NoDate == << >>

(***************************************************************************)
(* GET /api/reports/daily-summary.                                         *)
(***************************************************************************)
RECURSIVE SumOver(_, _)
SumOver(S, f) ==
  IF S = {} THEN 0
  ELSE LET x == CHOOSE y \in S : TRUE
       IN  f[x] + SumOver(S \ {x}, f)

\* employees.reduce((sum, e) => sum + ..., 0) over the numbers of a sequence.
RECURSIVE SumSeq(_)
SumSeq(s) ==
  IF s = << >> THEN 0 ELSE Head(s) + SumSeq(Tail(s))

\* Math.ceil(x * 10) / 10, in tenths.
RoundTenthCeil(x) == (x + 9) \div 10

\* Math.round(x * 10) / 10 of an amount of hours x given in hundredths; the
\* result in tenths.  Math.round rounds a half upwards.
RoundTenth(x) == (x + 5) \div 10

\* requireManager always letting the request through.
RequireManagerAnyone(user) == TRUE

\* requireManager: req.user.role !== 'manager' is answered 403.
RequireManager(user) == user.role = "manager"

\* The rows of checkins an INNER JOIN gives user u for the date.
JoinInner(rows, u, date) ==
  { i \in 1..Len(rows) :
      rows[i].employee_id = u /\ DATE(rows[i].checkin_time) = date }

\* LEFT JOIN checkins ch ON u.id = ch.employee_id AND DATE(ch.checkin_time) = ?
\* : the matching rows, or one row of NULLs for a user without any.
JoinLeft(rows, u, date) ==
  LET m == { i \in 1..Len(rows) :
               rows[i].employee_id = u /\ DATE(rows[i].checkin_time) = date }
  IN  IF m = {} THEN {NULL} ELSE m

\* The hours of a row without the test for a checkout.
RowHoursUnchecked(r) == r.checkout_time - r.checkin_time

\* CASE WHEN ch.checkout_time IS NOT NULL
\*   THEN (julianday(ch.checkout_time) - julianday(ch.checkin_time)) * 24 ELSE 0
RowHours(r) ==
  IF r.checkout_time # NULL THEN r.checkout_time - r.checkin_time ELSE 0

\* The user ids in the order of ORDER BY u.name.
UsersByName ==
  [k \in 1..Len(Collation) |->
     CHOOSE u \in UserIds : users[u].name = Collation[k]]

\* One row of the grouped result: the aggregates over the joined rows of u.
EmployeeRow(rows, u, joined) ==
  LET real == joined \ {NULL}
  IN  [employee_id |-> users[u].id,
       employee_name |-> users[u].name,
       employee_email |-> users[u].email,
       total_checkins |-> Cardinality(real),
       clients_visited |-> Cardinality({ rows[i].client_id : i \in real }),
       hours_worked |-> SumOver(real, [i \in real |-> RowHours(rows[i])])]

\* employeeQuery: users LEFT JOIN checkins, WHERE u.manager_id = ? AND
\* u.role = 'employee' [AND u.id = ?], GROUP BY u.id, ORDER BY u.name.
EmployeeQuery(rows, date, managerId, employee_id) ==
  LET kept == SelectSeq(UsersByName, LAMBDA u :
                /\ JoinLeft(rows, u, date) # {}
                /\ users[u].manager_id = managerId
                /\ users[u].role = "employee"
                /\ (employee_id # NULL => users[u].id = employee_id))
  IN  [k \in 1..Len(kept) |->
         EmployeeRow(rows, kept[k], JoinLeft(rows, kept[k], date))]

\* The count of the distinct clients without the restriction to the manager.
UniqueClientsQueryAnyManager(rows, managerId, date) ==
  Cardinality({ rows[i].client_id : i \in
    { j \in 1..Len(rows) :
        /\ rows[j].employee_id \in UserIds
        /\ DATE(rows[j].checkin_time) = date } })

\* SELECT COUNT(DISTINCT ch.client_id) FROM checkins ch INNER JOIN users u
\* ON ch.employee_id = u.id WHERE u.manager_id = ? AND DATE(ch.checkin_time) = ?
UniqueClientsQuery(rows, managerId, date) ==
  Cardinality({ rows[i].client_id : i \in
    { j \in 1..Len(rows) :
        /\ rows[j].employee_id \in UserIds
        /\ users[rows[j].employee_id].manager_id = managerId
        /\ DATE(rows[j].checkin_time) = date } })

\* Calculate team-level aggregates.
TeamSummary(employees) ==
  [total_employees |-> Len(employees),
   employees_checked_in |->
     Len(SelectSeq(employees, LAMBDA e : e.total_checkins > 0)),
   total_checkins |->
     SumSeq([k \in 1..Len(employees) |-> employees[k].total_checkins]),
   total_hours_worked |->
     RoundTenth(SumSeq([k \in 1..Len(employees) |-> employees[k].hours_worked])),
   unique_clients_visited |-> 0]

\* Format employee breakdown.
EmployeeBreakdown(employees) ==
  [k \in 1..Len(employees) |->
     [employee_id |-> employees[k].employee_id,
      employee_name |-> employees[k].employee_name,
      employee_email |-> employees[k].employee_email,
      total_checkins |-> employees[k].total_checkins,
      clients_visited |-> employees[k].clients_visited,
      hours_worked |-> RoundTenth(employees[k].hours_worked)]]

\* One query per employee of the breakdown instead of one for the team.
QueriesForUniqueClientsPerEmployee(employees) == Len(employees)

\* The number of queries the handler issues after the breakdown: the one
\* query for the unique clients.
QueriesForUniqueClients(employees) == 1

NoSummary == [total_employees |-> 0, employees_checked_in |-> 0,
              total_checkins |-> 0, total_hours_worked |-> 0,
              unique_clients_visited |-> 0]

IdleReport ==
  [pc |-> "idle", user |-> NULL, date |-> NoDate, employee_id |-> NULL,
   queries |-> 0, employees |-> << >>, status |-> 0, success |-> FALSE,
   message |-> "", has_data |-> FALSE, team_summary |-> NoSummary,
   employee_breakdown |-> << >>]

Fail(r, status, message) ==
  [r EXCEPT !.pc = "done", !.status = status, !.success = FALSE,
            !.message = message]

\* The request arrives with the identity authenticateToken has established;
\* requireManager, then the handler up to its first query.
ReportRequest(u, date, employee_id) ==
  /\ rep.pc = "idle"
  /\ LET r == [rep EXCEPT !.user = u, !.date = date,
                          !.employee_id = employee_id]
     IN  rep' =
           IF ~RequireManager(users[u])
           THEN Fail(r, 403, "Manager access required")
           ELSE IF date = NoDate
           THEN Fail(r, 400, "Date parameter is required (YYYY-MM-DD format)")
           ELSE IF ~DateRegexTest(date)
           THEN Fail(r, 400, "Invalid date format. Use YYYY-MM-DD")
           ELSE [r EXCEPT !.pc = "employee_query", !.queries = 1]
  /\ seen' = << checkins >>
  /\ UNCHANGED <<checkins, clock, calls, nreq, log>>
  /\ UNCHANGED counterVars

\* The first query answers; the team summary is computed and the second query
\* issued.  A query that fails is caught and answered 500.
ReportEmployees ==
  /\ rep.pc = "employee_query"
  /\ \E ok \in BOOLEAN :
       rep' =
         IF ok
         THEN LET employees == EmployeeQuery(checkins, rep.date, rep.user,
                                             rep.employee_id)
              IN  [rep EXCEPT !.pc = "unique_query",
                     !.employees = employees,
                     !.team_summary = TeamSummary(employees),
                     !.queries = @ + QueriesForUniqueClients(employees)]
         ELSE Fail(rep, 500, "Failed to generate daily summary report")
  /\ UNCHANGED <<checkins, clock, calls, nreq, log, seen>>
  /\ UNCHANGED counterVars

\* The second query answers and the response is sent.
ReportUniqueClients ==
  /\ rep.pc = "unique_query"
  /\ \E ok \in BOOLEAN :
       rep' =
         IF ok
         THEN [rep EXCEPT !.pc = "done", !.status = 200, !.success = TRUE,
                 !.has_data = TRUE,
                 !.team_summary.unique_clients_visited =
                    UniqueClientsQuery(checkins, rep.user, rep.date),
                 !.employee_breakdown = EmployeeBreakdown(rep.employees)]
         ELSE Fail(rep, 500, "Failed to generate daily summary report")
  /\ UNCHANGED <<checkins, clock, calls, nreq, log, seen>>
  /\ UNCHANGED counterVars

Init ==
  /\ checkins = << >>
  /\ clock = 0
  /\ calls = [w \in Workers |-> IdleCall]
  /\ nreq = 0
  /\ log = << >>
  /\ rep = IdleReport
  /\ seen = << >>
  /\ Mounted(0)

Next ==
  \/ \E w \in Workers, e \in FieldEmployees, c \in ClientIds \cup {NULL} :
       CheckinRequest(w, e, c, NearPosition)
  \/ \E w \in Workers : CheckinAuthorize(w)
  \/ \E w \in Workers : CheckinActiveCheck(w)
  \/ \E w \in Workers : CheckinInsert(w)
  \/ \E w \in Workers, e \in FieldEmployees : CheckoutRequest(w, e)
  \/ \E w \in Workers : CheckoutClose(w)

Spec == Init /\ [][Next]_vars

\* One worker answering requests one after the other, with every position.
NextGeo ==
  \/ \E e \in FieldEmployees, c \in ClientIds, p \in Positions :
       CheckinRequest(1, e, c, p)
  \/ CheckinAuthorize(1)
  \/ CheckinActiveCheck(1)
  \/ CheckinInsert(1)
  \/ \E e \in FieldEmployees : CheckoutRequest(1, e)
  \/ CheckoutClose(1)

SpecGeo == Init /\ [][NextGeo]_vars

\* Manager 1 asks for the summary of the first day while employee 3, who is
\* assigned to both clients, checks in and out.
ConcDates == { DATE(0), DATE(DayLength) }

NextConc ==
  \/ \E c \in ClientIds : CheckinRequest(1, 3, c, NearPosition)
  \/ CheckinAuthorize(1)
  \/ CheckinActiveCheck(1)
  \/ CheckinInsert(1)
  \/ CheckoutRequest(1, 3)
  \/ CheckoutClose(1)
  \/ \E d \in ConcDates : ReportRequest(1, d, NULL)
  \/ ReportEmployees
  \/ ReportUniqueClients

SpecConc == Init /\ [][NextConc]_vars

\* The Counter component, mounted with one of the initial values.
InitCounter ==
  /\ checkins = << >>
  /\ clock = 0
  /\ calls = [w \in Workers |-> IdleCall]
  /\ nreq = 0
  /\ log = << >>
  /\ rep = IdleReport
  /\ seen = << >>
  /\ \E v \in InitialValues : Mounted(v)

NextCounter ==
  \/ Tick
  \/ Render
  \/ FlushEffects
  \/ ClickIncrement
  \/ ClickAuto
  \/ ClickLog

SpecCounter == InitCounter /\ [][NextCounter]_vars

(***************************************************************************)
(* The report over the ledgers the lifecycle can leave behind.  SpecReport *)
(* starts from any ledger of at most MaxRows rows; SpecHours from a ledger *)
(* in which every member of manager 1's team has one closed check-in.      *)
(***************************************************************************)
\* The employees with rows in the ledgers of SpecReport.
LedgerEmployees == {2, 3, 7}

\* 09:00 and 23:54 of the first day, 09:00 of the second.
CheckinTimes == {900, 2390, 3300}

\* How long a closed check-in of SpecReport lasted.
ShiftLengths == {30}

RowTemplates ==
  { [employee_id |-> e, client_id |-> c, checkin_time |-> t, length |-> d] :
      e \in LedgerEmployees, c \in ClientIds, t \in CheckinTimes,
      d \in {NULL} \cup ShiftLengths }

\* A ledger from a sequence of templates: ids in the order of insertion; a
\* template without a length is a check-in that is still open.
LedgerOf(ts) ==
  [i \in 1..Len(ts) |->
     [id |-> i, employee_id |-> ts[i].employee_id, client_id |-> ts[i].client_id,
      checkin_time |-> ts[i].checkin_time,
      checkout_time |-> IF ts[i].length = NULL THEN NULL
                        ELSE ts[i].checkin_time + ts[i].length,
      status |-> IF ts[i].length = NULL THEN "checked_in"
                 ELSE "checked_out"]]

\* Rows are inserted in the order of their check-in times.
Ledgers ==
  UNION { { LedgerOf(ts) : ts \in
            { f \in [1..n -> RowTemplates] :
                \A i \in 1..(n - 1) : f[i].checkin_time <= f[i + 1].checkin_time } } :
          n \in 0..MaxRows }

TeamOne == { u \in UserIds : users[u].manager_id = 1 }

\* Every member of the team checked in at 09:00 and out d[e] units later.
HoursLedgers ==
  { [i \in 1..Cardinality(TeamOne) |->
       LET e == CHOOSE u \in TeamOne :
                  Cardinality({ v \in TeamOne : v < u }) = i - 1
       IN  [id |-> i, employee_id |-> e, client_id |-> 1,
            checkin_time |-> 900, checkout_time |-> 900 + d[e],
            status |-> "checked_out"]] :
    d \in [TeamOne -> 0..MaxDur] }

LastTime(rows) ==
  IF rows = << >> THEN 0
  ELSE CHOOSE t \in { rows[i].checkin_time : i \in 1..Len(rows) }
                    \cup { rows[i].checkout_time : i \in 1..Len(rows) } :
         \A i \in 1..Len(rows) :
           rows[i].checkin_time <= t /\ rows[i].checkout_time <= t

\* The callers of the report: the manager and one of the employees.
ReportCallers == {1, 2}

DateInputs ==
  { NoDate,
    << "2", "0", "2", "4", "-", "0", "1", "-", "1", "5" >>,
    << "2", "0", "2", "4", "-", "0", "1", "-", "1", "6" >>,
    << "2", "0", "2", "4", "-", "1", "3", "-", "4", "5" >>,
    << "2", "0", "2", "4", "-", "1", "-", "1", "5" >>,
    << "2", "0", "2", "4", "-", "0", "1", "-", "1", "5", "x" >> }

EmployeeFilters == {NULL, 2, 7}

InitReport ==
  /\ checkins \in Ledgers
  /\ clock = LastTime(checkins)
  /\ calls = [w \in Workers |-> IdleCall]
  /\ nreq = 0
  /\ log = << >>
  /\ rep = IdleReport
  /\ seen = << >>
  /\ Mounted(0)

InitHours ==
  /\ checkins \in HoursLedgers
  /\ clock = LastTime(checkins)
  /\ calls = [w \in Workers |-> IdleCall]
  /\ nreq = 0
  /\ log = << >>
  /\ rep = IdleReport
  /\ seen = << >>
  /\ Mounted(0)

NextReport ==
  \/ \E u \in ReportCallers, d \in DateInputs, f \in EmployeeFilters :
       ReportRequest(u, d, f)
  \/ ReportEmployees
  \/ ReportUniqueClients

SpecReport == InitReport /\ [][NextReport]_vars

SpecHours == InitHours /\ [][NextReport]_vars

(***************************************************************************)
(* Properties of the check-in lifecycle, checked under Spec.               *)
(***************************************************************************)
ActiveRows(e) ==
  { i \in 1..Len(checkins) :
      checkins[i].employee_id = e /\ checkins[i].status = "checked_in" }

\* C1: in every reachable state each employee has at most one row with
\* status checked_in, whatever the interleaving of the concurrent requests.
C1_AtMostOneActive ==
  \A e \in FieldEmployees : Cardinality(ActiveRows(e)) <= 1

\* Every worker has answered exactly one request, a check_in of employee e at
\* a client e is assigned to, and nothing else was ever requested.
OnlyCheckinsOf(e) ==
  /\ nreq = NumWorkers
  /\ \A w \in Workers :
       /\ calls[w].pc = "done"
       /\ calls[w].op = "check_in"
       /\ calls[w].emp = e
       /\ calls[w].client # NULL
       /\ <<e, calls[w].client>> \in employee_clients

\* C2: of N >= 2 check_in requests of one employee who starts with no active
\* check-in, exactly one returns success and the others AlreadyCheckedIn.
C2_ExactlyOneCheckinSucceeds ==
  \A e \in FieldEmployees :
    OnlyCheckinsOf(e) =>
      /\ Cardinality({ w \in Workers : calls[w].result = "success" }) = 1
      /\ \A w \in Workers : calls[w].result \in {"success", "AlreadyCheckedIn"}

\* The answers that concern employee e's active check-in, in the order of
\* their writes: successful check-ins and all checkouts.
LogOf(e) ==
  SelectSeq(log, LAMBDA r :
    /\ r.emp = e
    /\ \/ r.op = "check_out"
       \/ r.op = "check_in" /\ r.result = "success")

\* The i-th answer is a checkout that found a check-in opened since the last
\* successful checkout.
OpenBefore(L, i) ==
  \E j \in 1..(i - 1) :
    /\ L[j].op = "check_in"
    /\ \A k \in (j + 1)..(i - 1) :
         ~(L[k].op = "check_out" /\ L[k].result = "success")

CheckoutAnswers ==
  \A e \in FieldEmployees :
    LET L == LogOf(e)
    IN  \A i \in 1..Len(L) :
          L[i].op = "check_out" =>
            L[i].result = (IF OpenBefore(L, i) THEN "success"
                                               ELSE "NoActiveCheckin")

CheckoutStep ==
  \A w \in Workers :
    (calls[w].pc = "close" /\ calls'[w].pc = "done") =>
      calls'[w].result =
        (IF ActiveRows(calls[w].emp) = {} THEN "NoActiveCheckin" ELSE "success")

\* C3: a checkout fails with NoActiveCheckin exactly when the employee has no
\* row with status checked_in; so a checkout before any check-in fails, and of
\* two checkouts after one check-in the first succeeds and the second fails.
C3_CheckoutNeedsActive == [](CheckoutAnswers) /\ [][CheckoutStep]_vars

\* An employee checked in, checked out, and a second checkout was refused.
C3_Witness ==
  \E e \in FieldEmployees :
    LET L == LogOf(e)
    IN  /\ Len(L) = 3
        /\ L[1].op = "check_in"
        /\ L[2].op = "check_out" /\ L[2].result = "success"
        /\ L[3].op = "check_out" /\ L[3].result = "NoActiveCheckin"

RowStep ==
  /\ Len(checkins') >= Len(checkins)
  /\ \A i \in 1..Len(checkins) :
       /\ checkins[i].status = "checked_out" => checkins'[i] = checkins[i]
       /\ checkins'[i] # checkins[i] =>
            /\ checkins[i].status = "checked_in"
            /\ checkins'[i].status = "checked_out"
            /\ checkins'[i].checkout_time # NULL
            /\ checkins'[i] = [checkins[i] EXCEPT
                  !.status = "checked_out",
                  !.checkout_time = checkins'[i].checkout_time]

\* C4: a row changes only from checked_in to checked_out, once; a row that is
\* checked_out never changes again, so its checkout_time is never overwritten.
C4_RowTransitions == [][RowStep]_vars

\* A closed row of an employee who has checked in again since.
C4_Witness ==
  \E i, j \in 1..Len(checkins) :
    /\ i < j
    /\ checkins[i].employee_id = checkins[j].employee_id
    /\ checkins[i].status = "checked_out"
    /\ checkins[i].checkout_time # NULL
    /\ checkins[j].status = "checked_in"

(***************************************************************************)
(* Properties of one check-in, checked under SpecGeo.                      *)
(***************************************************************************)
CheckinFailures ==
  {"NotAuthorizedForClient", "AlreadyCheckedIn", "InvalidCoordinate"}

\* A step that answers a check-in with a failure leaves the ledger as it is.
RefusalStep ==
  \A w \in Workers :
    (/\ calls[w].pc # "done"
     /\ calls'[w].pc = "done"
     /\ calls'[w].op = "check_in"
     /\ calls'[w].result \in CheckinFailures) => checkins' = checkins

\* Rows come from answered check-ins only: one row for each success, each of
\* an employee at a client of theirs; and a handler that is past the
\* authorization holds an assigned pair and a position in range.
OnlyAuthorizedRows ==
  /\ Len(checkins) =
       Len(SelectSeq(log, LAMBDA r : r.op = "check_in" /\ r.result = "success"))
  /\ \A i \in 1..Len(checkins) :
       <<checkins[i].employee_id, checkins[i].client_id>> \in employee_clients
  /\ \A w \in Workers :
       calls[w].pc \in {"active_check", "insert"} =>
         /\ <<calls[w].emp, calls[w].client>> \in employee_clients
         /\ calls[w].position.lat <= 900000

\* C11: a check-in that fails with NotAuthorizedForClient, AlreadyCheckedIn or
\* InvalidCoordinate creates and changes no row, and the authorization is
\* decided before the insert.
C11_FailedCheckinLeavesLedger == [](OnlyAuthorizedRows) /\ [][RefusalStep]_vars

\* One check-in succeeded, a second was refused as AlreadyCheckedIn and a
\* third as InvalidCoordinate, and the ledger holds the one row.
C11_Witness ==
  /\ Len(checkins) = 1
  /\ \E i \in 1..Len(log) : log[i].result = "AlreadyCheckedIn"
  /\ \E i \in 1..Len(log) : log[i].result = "InvalidCoordinate"

\* C12: a successful check-in has warning = true exactly when the distance is
\* above 0.5 km: not at 62 m (0.06 km), not at exactly 500 m, but at 290 km.
C12_WarningAboveHalfKm ==
  \A w \in Workers :
    (calls[w].op = "check_in" /\ calls[w].result = "success") =>
      /\ calls[w].warning = (calls[w].distance > 500)
      /\ calls[w].position.name = "near" =>
           (calls[w].distance = 62 /\ calls[w].warning = FALSE)
      /\ calls[w].position.name = "edge" => calls[w].warning = FALSE
      /\ calls[w].position.name = "far" =>
           (calls[w].distance >= 290000 /\ calls[w].warning = TRUE)

\* A check-in at exactly 500 m succeeded without a warning.
C12_Witness ==
  \E w \in Workers :
    /\ calls[w].op = "check_in"
    /\ calls[w].result = "success"
    /\ calls[w].position.name = "edge"
    /\ calls[w].distance = 500
    /\ calls[w].warning = FALSE

(***************************************************************************)
(* Properties of the daily summary, checked under SpecReport and SpecHours.*)
(***************************************************************************)
Answered == rep.pc = "done"

Answered200 == rep.pc = "done" /\ rep.status = 200

CallerIsManager == rep.user # NULL /\ users[rep.user].role = "manager"

\* C5: a caller who is not a manager is answered Forbidden before any query
\* of the ledger is issued, and the answer carries no summary or breakdown.
C5_ForbiddenBeforeQueries ==
  (rep.pc # "idle" /\ ~CallerIsManager) =>
    /\ rep.pc = "done"
    /\ rep.status = 403
    /\ rep.success = FALSE
    /\ rep.queries = 0
    /\ rep.has_data = FALSE
    /\ rep.employees = << >>
    /\ rep.team_summary = NoSummary
    /\ rep.employee_breakdown = << >>

\* An employee asked for the report of a day with check-ins and was refused.
C5_Witness ==
  /\ Answered
  /\ ~CallerIsManager
  /\ rep.status = 403
  /\ \E i \in 1..Len(checkins) : DATE(checkins[i].checkin_time) = rep.date

\* Four digits, a dash, two digits, a dash, two digits, and nothing else.
HasDateForm(d) ==
  /\ Len(d) = 10
  /\ \A i \in 1..10 :
       IF i \in {5, 8} THEN d[i] = "-"
       ELSE d[i] \in { Digits[k] : k \in 1..Len(Digits) }

Number(d, from, to) ==
  LET RECURSIVE Val(_)
      Val(i) == IF i < from THEN 0 ELSE 10 * Val(i - 1) + DigitValue(d[i])
  IN  Val(to)

IsLeapYear(y) == (y % 4 = 0 /\ y % 100 # 0) \/ y % 400 = 0

DaysInMonth(y, m) ==
  IF m = 2 THEN (IF IsLeapYear(y) THEN 29 ELSE 28)
  ELSE IF m \in {4, 6, 9, 11} THEN 30 ELSE 31

\* The text names a day of the calendar.
IsCalendarDate(d) ==
  /\ HasDateForm(d)
  /\ Number(d, 6, 7) \in 1..12
  /\ Number(d, 9, 10) \in 1..DaysInMonth(Number(d, 1, 4), Number(d, 6, 7))

Rejected400 == rep.pc = "done" /\ rep.status = 400 /\ rep.queries = 0

\* C6 as stated: a manager's request whose date is missing or is no
\* well-formed calendar date is answered 400 without any query.
C6_NonCalendarDateRejected ==
  (rep.pc # "idle" /\ CallerIsManager /\ ~IsCalendarDate(rep.date)) =>
    Rejected400

\* C6: a manager's request is answered 400, without any query, exactly when
\* the date is missing or has not the form dddd-dd-dd; every date of that form
\* reaches the aggregation, the ones that name no calendar day too.
C6_MalformedDateRejected ==
  (rep.pc # "idle" /\ CallerIsManager) =>
    /\ ~HasDateForm(rep.date) => Rejected400
    /\ HasDateForm(rep.date) => (rep.status # 400 /\ rep.queries >= 1)

\* A manager's request with a date that is present and malformed was refused.
C6_Witness ==
  /\ CallerIsManager
  /\ rep.date # NoDate
  /\ ~HasDateForm(rep.date)
  /\ Rejected400
  /\ checkins # << >>

\* The check-ins of user u on the day the text d names.
CheckinsOn(u, d) ==
  { i \in 1..Len(checkins) :
      checkins[i].employee_id = u /\ DATE(checkins[i].checkin_time) = d }

\* The employees the breakdown is about.
ReportedEmployees ==
  { u \in UserIds :
      /\ users[u].role = "employee"
      /\ users[u].manager_id = rep.user
      /\ (rep.employee_id # NULL => u = rep.employee_id) }

BreakdownOf(u) ==
  { k \in 1..Len(rep.employee_breakdown) :
      rep.employee_breakdown[k].employee_id = u }

\* C7: the breakdown has exactly one entry for each employee of the caller
\* (for the one employee of the filter when given); an employee without a
\* check-in on the date has zeros, and with no check-in in the whole breakdown
\* the team's total_checkins and total_hours_worked are 0.
C7_EveryEmployeeOnce ==
  Answered200 =>
    /\ Len(rep.employee_breakdown) = Cardinality(ReportedEmployees)
    /\ \A u \in ReportedEmployees : Cardinality(BreakdownOf(u)) = 1
    /\ \A k \in 1..Len(rep.employee_breakdown) :
         LET b == rep.employee_breakdown[k]
         IN  CheckinsOn(b.employee_id, rep.date) = {} =>
               /\ b.total_checkins = 0
               /\ b.clients_visited = 0
               /\ b.hours_worked = 0
    /\ (\A u \in ReportedEmployees : CheckinsOn(u, rep.date) = {}) =>
         /\ rep.team_summary.total_checkins = 0
         /\ rep.team_summary.total_hours_worked = 0

\* A report of the whole team on a day when one member checked in and the
\* others did not.
C7_Witness ==
  /\ Answered200
  /\ rep.employee_id = NULL
  /\ Cardinality(ReportedEmployees) >= 2
  /\ \E u \in ReportedEmployees : CheckinsOn(u, rep.date) # {}
  /\ \E u \in ReportedEmployees :
       /\ CheckinsOn(u, rep.date) = {}
       /\ \E k \in BreakdownOf(u) : rep.employee_breakdown[k].total_checkins = 0

\* C8: unique_clients_visited never exceeds total_checkins, with or without
\* the employee_id filter.
C8_UniqueClientsAtMostCheckins ==
  Answered200 =>
    rep.team_summary.unique_clients_visited <= rep.team_summary.total_checkins

Abs(x) == IF x < 0 THEN 0 - x ELSE x

\* The team's total minus the sum of the breakdown's hours, in tenths.
HoursGap ==
  rep.team_summary.total_hours_worked
    - SumSeq([k \in 1..Len(rep.employee_breakdown) |->
                rep.employee_breakdown[k].hours_worked])

\* C9 as stated: the team's total and the sum of the breakdown's hours differ
\* by at most 0.1, for any number of employees.
C9_TotalWithinOneTenth == Answered200 => Abs(HoursGap) <= 1

\* C9: the team's total and the sum of the breakdown's hours differ by at most
\* 0.05 for each of the n + 1 roundings, n the number of breakdown entries.
C9_TotalWithinHalfTenthPerRounding ==
  Answered200 => 2 * Abs(HoursGap) <= Len(rep.employee_breakdown) + 1

\* A report of four employees with hours that round to different sides.
C9_Witness ==
  /\ Answered200
  /\ Len(rep.employee_breakdown) >= 4
  /\ Abs(HoursGap) >= 2

\* C10: a request issues at most two queries, and an answered report exactly
\* two, whatever the number of employees and of check-in rows.
C10_TwoQueries ==
  /\ rep.queries <= 2
  /\ rep.pc = "employee_query" => rep.queries = 1
  /\ rep.pc = "unique_query" => rep.queries = 2
  /\ Answered200 => rep.queries = 2

\* An answered report of four employees over a ledger of two rows.
C10_Witness ==
  /\ Answered200
  /\ Len(rep.employee_breakdown) >= 4
  /\ Len(checkins) >= 2
  /\ rep.queries = 2

\* The rows of employee u whose check-in falls on the day the text d names,
\* whatever the day of their checkout.
CheckedInOn(u, d) ==
  { i \in 1..Len(checkins) :
      /\ checkins[i].employee_id = u
      /\ HasDateForm(d)
      /\ Number(d, 1, 4) = 2024
      /\ Number(d, 6, 7) = 1
      /\ Number(d, 9, 10) = 15 + (checkins[i].checkin_time \div DayLength) }

Closed(S) == { i \in S : checkins[i].checkout_time # NULL }

Duration(S) ==
  SumOver(S, [i \in S |-> checkins[i].checkout_time - checkins[i].checkin_time])

\* C13: the hours of an employee, before any rounding, are the sum of checkout
\* minus check-in over the closed check-ins of the date; an open check-in adds
\* no hours and is counted in total_checkins and clients_visited.
C13_HoursAreClosedDurations ==
  (rep.pc \in {"unique_query", "done"}) =>
    \A k \in 1..Len(rep.employees) :
      LET e == rep.employees[k]
          on == CheckinsOn(e.employee_id, rep.date)
      IN  /\ e.hours_worked = Duration(Closed(on))
          /\ e.total_checkins = Cardinality(on)
          /\ e.clients_visited =
               Cardinality({ checkins[i].client_id : i \in on })

\* An employee with an open and a closed check-in at two clients on the date.
C13_Witness ==
  /\ Answered200
  /\ \E k \in 1..Len(rep.employees) :
       LET e == rep.employees[k]
           on == CheckinsOn(e.employee_id, rep.date)
       IN  /\ Cardinality(on) = 2
           /\ Cardinality(Closed(on)) = 1
           /\ e.clients_visited = 2
           /\ e.hours_worked = 30

\* C14: a check-in is in the summary of date D exactly when the calendar day of
\* its checkin_time is D, whatever the day of its checkout: it is counted under
\* exactly one date, and all its hours go to that date.
C14_CountedOnCheckinDate ==
  /\ Answered200 =>
       \A k \in 1..Len(rep.employees) :
         LET e == rep.employees[k]
             on == CheckedInOn(e.employee_id, rep.date)
         IN  /\ e.total_checkins = Cardinality(on)
             /\ e.hours_worked = Duration(Closed(on))
  /\ Answered200 =>
       \A i \in 1..Len(checkins) :
         Cardinality({ d \in DateInputs :
           i \in JoinLeft(checkins, checkins[i].employee_id, d) }) = 1

\* The report of the first day counts a check-in of 23:54 that was closed
\* after midnight, with all its hours.
C14_Witness ==
  /\ Answered200
  /\ \E k \in 1..Len(rep.employees) :
       LET e == rep.employees[k]
           on == CheckedInOn(e.employee_id, rep.date)
       IN  /\ e.total_checkins = 1
           /\ e.hours_worked = 30
           /\ \E i \in on :
                checkins[i].checkout_time \div DayLength
                  > checkins[i].checkin_time \div DayLength

\* The rows of the ledger that belong to the caller's team.
TeamLedger ==
  SelectSeq(checkins, LAMBDA r : users[r.employee_id].manager_id = rep.user)

FilterOutsideTeam ==
  /\ rep.employee_id # NULL
  /\ users[rep.employee_id].manager_id # rep.user

\* C15: the response is the one the team's own rows give, so ledgers that agree
\* on the caller's team give the same response; a filter that names another
\* manager's employee gives an empty breakdown and a summary of zeros, its
\* unique_clients_visited being that of the caller's own team.
C15_OnlyOwnTeam ==
  Answered200 =>
    LET own == EmployeeQuery(TeamLedger, rep.date, rep.user, rep.employee_id)
    IN  /\ rep.employee_breakdown = EmployeeBreakdown(own)
        /\ rep.team_summary =
             [TeamSummary(own) EXCEPT !.unique_clients_visited =
                UniqueClientsQuery(TeamLedger, rep.user, rep.date)]
        /\ FilterOutsideTeam =>
             /\ rep.employee_breakdown = << >>
             /\ rep.team_summary.total_employees = 0
             /\ rep.team_summary.employees_checked_in = 0
             /\ rep.team_summary.total_checkins = 0
             /\ rep.team_summary.total_hours_worked = 0

\* Manager 1 asked for employee 7 of manager 6, who checked in that day.
C15_Witness ==
  /\ Answered200
  /\ FilterOutsideTeam
  /\ CheckinsOn(rep.employee_id, rep.date) # {}
  /\ rep.employee_breakdown = << >>

(***************************************************************************)
(* The report under concurrent writes, checked under SpecConc.             *)
(***************************************************************************)
\* The response the handler gives when both queries read the ledger L.
SummaryOf(L) ==
  LET employees == EmployeeQuery(L, rep.date, rep.user, rep.employee_id)
  IN  [team_summary |->
         [TeamSummary(employees) EXCEPT !.unique_clients_visited =
            UniqueClientsQuery(L, rep.user, rep.date)],
       employee_breakdown |-> EmployeeBreakdown(employees)]

\* C16: the response of a report equals the summary of one ledger state that
\* existed between the start and the end of the request, so a concurrent
\* write is reflected in every field of the response or in none.
C16_ResponseOfOneLedgerState ==
  Answered200 =>
    \E k \in 1..Len(seen) :
      /\ rep.team_summary = SummaryOf(seen[k]).team_summary
      /\ rep.employee_breakdown = SummaryOf(seen[k]).employee_breakdown

(***************************************************************************)
(* Properties of the Counter component, checked under SpecCounter.         *)
(***************************************************************************)
\* C17: every tick and every click on +1 adds exactly 1 to the latest count:
\* with the queued updaters counted in, count = initialValue + ticks + clicks
\* at every instant, and count is that sum whenever nothing is queued.
C17_NoIncrementLost ==
  /\ ApplyUpdates(count, updates) = initialValue + ticks + clicks
  /\ count + Len(updates) = initialValue + ticks + clicks
  /\ updates = << >> => count = initialValue + ticks + clicks

\* Several ticks of one interval and a click between them, all rendered.
C17_Witness ==
  /\ ticks >= 2
  /\ clicks >= 1
  /\ isRunning
  /\ captured # NULL
  /\ captured < count - 1
  /\ updates = << >>
  /\ count = initialValue + ticks + clicks

\* C18: whenever Log runs, the value it reads from countRef.current is the
\* count held in state.
C18_LogReadsCount == logged.ref = logged.count

====
